---- MODULE Spec2Model ----
(***************************************************************************)
(* CM256: Cauchy-matrix Reed-Solomon erasure code over GF(256).            *)
(* Model of src/kernel/cm256.c (cm256_init_, cm256_encode, cm256_decode)   *)
(* driven by a caller shaped like ExampleFileUsage (src/userspace/main.c). *)
(*                                                                         *)
(* C arrays are functions on 0..n-1.  A shard buffer is a function         *)
(* 0..B-1 -> 0..255.  A pointer to a shard is the id of the buffer in mem; *)
(* a pointer to a descriptor is its position in blocks.                    *)
(***************************************************************************)
EXTENDS Integers, Sequences, FiniteSets, TLC

(***************************************************************************)
(* Bounds of the model.                                                    *)
(***************************************************************************)
\* largest OriginalCount the caller tries
MaxK == 3
\* largest small RecoveryCount the caller tries
MaxM == 2
\* largest BlockBytes the caller tries
MaxB == 1
\* seeds of the caller's data generator (0..MaxSeed)
MaxSeed == 1
\* how many times the caller calls cm256_decode on the same descriptors
MaxDecodes == 2
\* OriginalCount and RecoveryCount of the caller that exercises the solver on larger systems
MaxN == 6

(***************************************************************************)
(* GF(256) collaborator (gf256.h / gf256.c are not part of src/).          *)
(* Bytes are 0..255, addition is XOR, multiplication is modulo the         *)
(* degree-8 polynomial GF256_POLY with generator 2, through log/exp tables.*)
(***************************************************************************)
GF256_POLY == 333

RECURSIVE Xor(_, _)
Xor(a, b) ==
    IF a = 0 THEN b
    ELSE IF b = 0 THEN a
    ELSE (((a % 2) + (b % 2)) % 2) + (2 * Xor(a \div 2, b \div 2))

\* multiplication by the generator 2: shift, then reduce by the polynomial
Times2(x) == IF 2 * x >= 256 THEN Xor(2 * x, GF256_POLY) ELSE 2 * x

RECURSIVE MulBits(_, _)
\* shift-and-add product of two field elements
MulBits(a, b) ==
    IF b = 0 THEN 0
    ELSE Xor(IF b % 2 = 1 THEN a ELSE 0, MulBits(Times2(a), b \div 2))

Square(a) == MulBits(a, a)

RECURSIVE Pow2(_)
\* 2^i in the field, by repeated squaring
Pow2(i) ==
    IF i = 0 THEN 1
    ELSE IF i % 2 = 1 THEN Times2(Pow2(i - 1))
    ELSE Square(Pow2(i \div 2))

\* GF256_EXP_TABLE[i+1] = 2^i for i in 0..254
GF256_EXP_TABLE == SubSeq([i \in 1..255 |-> Pow2(i - 1)], 1, 255)

\* the table of discrete logarithms of a table of powers
LogTable(exp) == SubSeq([x \in 1..255 |-> CHOOSE i \in 0..254 : exp[i + 1] = x], 1, 255)

\* GF256_LOG_TABLE[x] = the i in 0..254 with 2^i = x, for x in 1..255
GF256_LOG_TABLE == LogTable(GF256_EXP_TABLE)

gf256_add(x, y) == Xor(x, y)

gf256_mul(x, y) ==
    IF x = 0 \/ y = 0 THEN 0
    ELSE GF256_EXP_TABLE[((GF256_LOG_TABLE[x] + GF256_LOG_TABLE[y]) % 255) + 1]

\* x / y; the contract requires y # 0, and a zero divisor is taken to give 0
gf256_div(x, y) ==
    IF x = 0 \/ y = 0 THEN 0
    ELSE GF256_EXP_TABLE[(((GF256_LOG_TABLE[x] + 255) - GF256_LOG_TABLE[y]) % 255) + 1]

\* bulk operations on the first n bytes of a buffer; each returns the new dst
gf256_add_mem(dst, src, n) ==
    [i \in DOMAIN dst |-> IF i < n THEN Xor(dst[i], src[i]) ELSE dst[i]]

gf256_add2_mem(dst, a, b, n) ==
    [i \in DOMAIN dst |-> IF i < n THEN Xor(dst[i], Xor(a[i], b[i])) ELSE dst[i]]

gf256_addset_mem(dst, a, b, n) ==
    [i \in DOMAIN dst |-> IF i < n THEN Xor(a[i], b[i]) ELSE dst[i]]

gf256_mul_mem(dst, src, c, n) ==
    [i \in DOMAIN dst |-> IF i < n THEN gf256_mul(src[i], c) ELSE dst[i]]

gf256_muladd_mem(dst, c, src, n) ==
    [i \in DOMAIN dst |-> IF i < n THEN Xor(dst[i], gf256_mul(c, src[i])) ELSE dst[i]]

gf256_div_mem(dst, src, c, n) ==
    [i \in DOMAIN dst |-> IF i < n THEN gf256_div(src[i], c) ELSE dst[i]]

memcpy(dst, src, n) ==
    [i \in DOMAIN dst |-> IF i < n THEN src[i] ELSE dst[i]]

\* (uint8_t) cast
U8(x) == x % 256

(***************************************************************************)
(* cm256.h                                                                 *)
(***************************************************************************)
CM256_VERSION == 2

\* a pointer argument is NULL or <<target>>
NULL == <<>>
Ptr(target) == <<target>>
Deref(p) == p[1]

cm256_get_original_block_index(params, i) == U8(i)

cm256_get_recovery_block_index(params, i) == U8(params.OriginalCount + i)

(***************************************************************************)
(* Matrix element generator                                                *)
(***************************************************************************)
\* the fraction inverted
GetMatrixElement_inverted(x_i, x_0, y_j) ==
    gf256_div(gf256_add(x_i, y_j), gf256_add(y_j, x_0))

GetMatrixElement(x_i, x_0, y_j) ==
    gf256_div(gf256_add(y_j, x_0), gf256_add(x_i, y_j))

(***************************************************************************)
(* Encoding                                                                *)
(***************************************************************************)
RECURSIVE cm256_encode_block_parity_short(_, _, _, _, _)
\* the loop stops one original early
cm256_encode_block_parity_short(params, originals, j, recoveryBlock, mem) ==
    IF j < params.OriginalCount - 1
    THEN cm256_encode_block_parity_short(params, originals, j + 1,
             gf256_add_mem(recoveryBlock, mem[originals[j].Block], params.BlockBytes), mem)
    ELSE recoveryBlock

RECURSIVE cm256_encode_block_parity(_, _, _, _, _)
\* for (j = 2; j < OriginalCount; ++j) gf256_add_mem(recoveryBlock, originals[j].Block)
cm256_encode_block_parity(params, originals, j, recoveryBlock, mem) ==
    IF j < params.OriginalCount
    THEN cm256_encode_block_parity(params, originals, j + 1,
             gf256_add_mem(recoveryBlock, mem[originals[j].Block], params.BlockBytes), mem)
    ELSE recoveryBlock

RECURSIVE cm256_encode_block_columns(_, _, _, _, _, _, _)
\* for (j = 1; j < OriginalCount; ++j) gf256_muladd_mem(recoveryBlock, a(x_i, x_0, j), originals[j].Block)
cm256_encode_block_columns(params, originals, x_i, x_0, j, recoveryBlock, mem) ==
    IF j < params.OriginalCount
    THEN cm256_encode_block_columns(params, originals, x_i, x_0, j + 1,
             gf256_muladd_mem(recoveryBlock, GetMatrixElement(x_i, x_0, U8(j)),
                              mem[originals[j].Block], params.BlockBytes), mem)
    ELSE recoveryBlock

\* the new content of the output buffer, whose content was recoveryBlock
cm256_encode_block(params, originals, recoveryBlockIndex, recoveryBlock, mem) ==
    IF params.OriginalCount = 1
    THEN memcpy(recoveryBlock, mem[originals[0].Block], params.BlockBytes)
    ELSE IF recoveryBlockIndex = params.OriginalCount
    THEN cm256_encode_block_parity(params, originals, 2,
             gf256_addset_mem(recoveryBlock, mem[originals[0].Block],
                              mem[originals[1].Block], params.BlockBytes), mem)
    ELSE LET x_0 == U8(params.OriginalCount)
             x_i == U8(recoveryBlockIndex)
         IN  cm256_encode_block_columns(params, originals, x_i, x_0, 1,
                 gf256_mul_mem(recoveryBlock, mem[originals[0].Block],
                               GetMatrixElement(x_i, x_0, 0), params.BlockBytes), mem)

\* recoveryBlock is never advanced: every row is written over the first output buffer
cm256_encode_in_place(params, originals, recoveryBlocks, mem) ==
    IF params.OriginalCount <= 0 \/ params.RecoveryCount <= 0 \/ params.BlockBytes <= 0
    THEN [ret |-> -1, mem |-> mem]
    ELSE IF params.OriginalCount + params.RecoveryCount > 256
    THEN [ret |-> -2, mem |-> mem]
    ELSE IF originals = NULL \/ recoveryBlocks = NULL
    THEN [ret |-> -3, mem |-> mem]
    ELSE [ret |-> 0,
          mem |-> [mem EXCEPT ![Deref(recoveryBlocks)] =
                      cm256_encode_block(params, Deref(originals),
                          params.OriginalCount + params.RecoveryCount - 1, @, mem)]]

\* originals: pointer to the descriptor array; recoveryBlocks: pointer to the first
\* output buffer, an id of mem (the output buffers are end-to-end: ids first + block)
cm256_encode(params, originals, recoveryBlocks, mem) ==
    IF params.OriginalCount <= 0 \/ params.RecoveryCount <= 0 \/ params.BlockBytes <= 0
    THEN [ret |-> -1, mem |-> mem]
    ELSE IF params.OriginalCount + params.RecoveryCount > 256
    THEN [ret |-> -2, mem |-> mem]
    ELSE IF originals = NULL \/ recoveryBlocks = NULL
    THEN [ret |-> -3, mem |-> mem]
    ELSE [ret |-> 0,
          mem |-> [id \in DOMAIN mem |->
                     IF id >= Deref(recoveryBlocks)
                        /\ id < Deref(recoveryBlocks) + params.RecoveryCount
                     THEN cm256_encode_block(params, Deref(originals),
                              params.OriginalCount + (id - Deref(recoveryBlocks)), mem[id], mem)
                     ELSE mem[id]]]

(***************************************************************************)
(* Decoding: CM256Decoder and Initialize                                   *)
(***************************************************************************)
\* the kmalloc'ed CM256Decoder before Initialize: ErasuresIndices holds whatever
\* the allocation held (junk); Recovery[] and Original[] hold no pointer yet
CM256Decoder(junk) ==
    [Params |-> [BlockBytes |-> 0, OriginalCount |-> 0, RecoveryCount |-> 0],
     Recovery |-> <<>>, RecoveryCount |-> 0,
     Original |-> <<>>, OriginalCount |-> 0,
     ErasuresIndices |-> [ii \in 0..255 |-> junk]]

RECURSIVE Initialize_blocks_unchecked(_, _, _, _)
\* a repeated row index is not looked for
Initialize_blocks_unchecked(decoder, params, blocks, ii) ==
    IF ii >= params.OriginalCount
    THEN [ret |-> 0, decoder |-> decoder]
    ELSE IF blocks[ii].Index < params.OriginalCount
    THEN Initialize_blocks_unchecked(
             [decoder EXCEPT !.Original = @ @@ (decoder.OriginalCount :> ii),
                             !.OriginalCount = @ + 1,
                             !.ErasuresIndices[blocks[ii].Index] = 1],
             params, blocks, ii + 1)
    ELSE Initialize_blocks_unchecked(
             [decoder EXCEPT !.Recovery = @ @@ (decoder.RecoveryCount :> ii),
                             !.RecoveryCount = @ + 1],
             params, blocks, ii + 1)

RECURSIVE Initialize_blocks_marked_first(_, _, _, _)
\* the row is marked present before it is tested
Initialize_blocks_marked_first(decoder, params, blocks, ii) ==
    IF ii >= params.OriginalCount
    THEN [ret |-> 0, decoder |-> decoder]
    ELSE IF blocks[ii].Index < params.OriginalCount
    THEN [ret |-> -1,
          decoder |-> [decoder EXCEPT !.Original = @ @@ (decoder.OriginalCount :> ii),
                                      !.OriginalCount = @ + 1,
                                      !.ErasuresIndices[blocks[ii].Index] = 1]]
    ELSE Initialize_blocks_marked_first(
             [decoder EXCEPT !.Recovery = @ @@ (decoder.RecoveryCount :> ii),
                             !.RecoveryCount = @ + 1],
             params, blocks, ii + 1)

RECURSIVE Initialize_blocks(_, _, _, _)
\* for (ii = 0; ii < OriginalCount; ++ii, ++block): classify the input blocks
Initialize_blocks(decoder, params, blocks, ii) ==
    IF ii >= params.OriginalCount
    THEN [ret |-> 0, decoder |-> decoder]
    ELSE LET row == blocks[ii].Index
         IN  IF row < params.OriginalCount
             THEN LET d == [decoder EXCEPT
                               !.Original = @ @@ (decoder.OriginalCount :> ii),
                               !.OriginalCount = @ + 1]
                  IN  IF decoder.ErasuresIndices[row] # 0
                      THEN [ret |-> -1, decoder |-> d]
                      ELSE Initialize_blocks([d EXCEPT !.ErasuresIndices[row] = 1],
                                             params, blocks, ii + 1)
             ELSE Initialize_blocks(
                      [decoder EXCEPT !.Recovery = @ @@ (decoder.RecoveryCount :> ii),
                                      !.RecoveryCount = @ + 1],
                      params, blocks, ii + 1)

RECURSIVE Initialize_erasures_counted(_, _, _, _)
\* the running count is stored in place of the index found
Initialize_erasures_counted(s, lo, hi, RecoveryCount) ==
    IF s.done \/ lo >= hi THEN s
    ELSE IF hi = lo + 1
    THEN IF s.E[lo] = 0
         THEN [E |-> [s.E EXCEPT ![s.indexCount] = U8(s.indexCount)],
               indexCount |-> s.indexCount + 1,
               done |-> s.indexCount + 1 >= RecoveryCount]
         ELSE s
    ELSE Initialize_erasures_counted(
             Initialize_erasures_counted(s, lo, (lo + hi) \div 2, RecoveryCount),
             (lo + hi) \div 2, hi, RecoveryCount)

RECURSIVE Initialize_erasures(_, _, _, _)
\* for (ii = 0, indexCount = 0; ii < 256; ++ii): iterations lo..hi-1 in order, on the
\* loop state s = [E: ErasuresIndices, indexCount, done: the break was taken]
Initialize_erasures(s, lo, hi, RecoveryCount) ==
    IF s.done \/ lo >= hi THEN s
    ELSE IF hi = lo + 1
    THEN IF s.E[lo] = 0
         THEN [E |-> [s.E EXCEPT ![s.indexCount] = U8(lo)],
               indexCount |-> s.indexCount + 1,
               done |-> s.indexCount + 1 >= RecoveryCount]
         ELSE s
    ELSE Initialize_erasures(
             Initialize_erasures(s, lo, (lo + hi) \div 2, RecoveryCount),
             (lo + hi) \div 2, hi, RecoveryCount)

\* the erasure pass on what the classification pass gave
Initialize_identify(r) ==
    IF r.ret # 0 THEN r
    ELSE [r EXCEPT !.decoder.ErasuresIndices =
             Initialize_erasures([E |-> @, indexCount |-> 0, done |-> FALSE],
                                 0, 256, r.decoder.RecoveryCount).E]

\* decoder: the allocated state as kmalloc gave it; gives [ret, decoder]
Initialize(decoder, params, blocks) ==
    Initialize_identify(
        Initialize_blocks(
            [decoder EXCEPT
                !.Params = params,
                !.OriginalCount = 0,
                !.RecoveryCount = 0,
                !.ErasuresIndices =
                    [ii \in 0..255 |-> IF ii < params.OriginalCount THEN 0 ELSE @[ii]]],
            params, blocks, 0))

(***************************************************************************)
(* Decoding: m = 1                                                         *)
(***************************************************************************)
RECURSIVE DecodeM1_blocks(_, _, _, _, _)
\* for (ii = 0; ii < OriginalCount; ++ii): XOR the originals in pairs into outBlock;
\* inBlock is NULL or points at the buffer waiting for its pair; gives [mem, inBlock]
DecodeM1_blocks(decoder, blocks, mem, ii, inBlock) ==
    IF ii >= decoder.OriginalCount
    THEN [mem |-> mem, inBlock |-> inBlock]
    ELSE LET outBlock == blocks[decoder.Recovery[0]].Block
             inBlock2 == blocks[decoder.Original[ii]].Block
         IN  IF inBlock = NULL
             THEN DecodeM1_blocks(decoder, blocks, mem, ii + 1, Ptr(inBlock2))
             ELSE DecodeM1_blocks(decoder, blocks,
                      [mem EXCEPT ![outBlock] =
                          gf256_add2_mem(mem[outBlock], mem[Deref(inBlock)], mem[inBlock2],
                                         decoder.Params.BlockBytes)],
                      ii + 1, NULL)

\* the block left without a pair is not added
DecodeM1_complete_pairs_only(decoder, blocks, r) ==
    [blocks |-> [blocks EXCEPT ![decoder.Recovery[0]].Index = decoder.ErasuresIndices[0]],
     mem |-> r.mem]

\* the trailing gf256_add_mem and the relabelling, r being what the loop gave
DecodeM1_complete(decoder, blocks, r) ==
    [blocks |-> [blocks EXCEPT ![decoder.Recovery[0]].Index = decoder.ErasuresIndices[0]],
     mem |-> IF r.inBlock # NULL
             THEN [r.mem EXCEPT ![blocks[decoder.Recovery[0]].Block] =
                      gf256_add_mem(@, r.mem[Deref(r.inBlock)], decoder.Params.BlockBytes)]
             ELSE r.mem]

\* gives [blocks, mem]
DecodeM1(decoder, blocks, mem) ==
    DecodeM1_complete(decoder, blocks, DecodeM1_blocks(decoder, blocks, mem, 0, NULL))

(***************************************************************************)
(* Decoding: LDU decomposition                                             *)
(* The matrix allocation is a function from byte offsets to bytes whose    *)
(* domain is the set of offsets written so far; matrix_L, diag_D, matrix_U *)
(* and the other pointers into it are offsets.                             *)
(***************************************************************************)
\* *p = v
Poke(array, p, v) == [o \in (DOMAIN array) \cup {p} |-> IF o = p THEN v ELSE array[o]]

\* the count bytes at p, as a buffer
Slice(array, p, count) == [i \in 0..(count - 1) |-> array[p + i]]

\* the buffer buf stored at p
PutSlice(array, p, buf) ==
    [o \in (DOMAIN array) \cup {p + i : i \in DOMAIN buf} |->
        IF o - p \in DOMAIN buf THEN buf[o - p] ELSE array[o]]

RecoveryIndex(decoder, blocks, i) == blocks[decoder.Recovery[i]].Index

RECURSIVE GenerateLDUDecomposition_row_stale_b(_, _, _, _, _)
\* the generator b[j] is not updated
GenerateLDUDecomposition_row_stale_b(decoder, blocks, k, j, s) ==
    IF j >= decoder.RecoveryCount THEN s
    ELSE LET x_k == RecoveryIndex(decoder, blocks, k)
             y_k == decoder.ErasuresIndices[k]
             x_j == RecoveryIndex(decoder, blocks, j)
             y_j == decoder.ErasuresIndices[j]
             L_jk == gf256_div(s.g[j], gf256_add(x_j, y_k))
             U_kj == gf256_div(s.b[j], gf256_add(x_k, y_j))
         IN  GenerateLDUDecomposition_row_stale_b(decoder, blocks, k, j + 1,
                 [s EXCEPT
                     !.matrix = Poke(@, s.matrix_L, L_jk),
                     !.matrix_L = @ + 1,
                     !.rotated_row_U = Poke(@, s.row_U, U_kj),
                     !.row_U = @ + 1,
                     !.g[j] = gf256_mul(@, gf256_div(gf256_add(x_j, x_k), gf256_add(x_j, y_k))),
                     !.stores = @ \cup {<<s.matrix_L, <<"L", j, k>>>>},
                     !.divisors = @ \cup {<<"x_j + y_k", gf256_add(x_j, y_k)>>,
                                          <<"x_k + y_j", gf256_add(x_k, y_j)>>,
                                          <<"y_j + x_k", gf256_add(y_j, x_k)>>}])

RECURSIVE GenerateLDUDecomposition_row(_, _, _, _, _)
\* for (j = k + 1; j < N; ++j): the raw k-th column of L and row of U, and the
\* generator update; s = [g, b, matrix, matrix_L, rotated_row_U, row_U, last_U, firstOffset_U]
\* and the history of the run: stores (where each entry of L, D, U was first stored)
\* and divisors (every value divided by)
GenerateLDUDecomposition_row(decoder, blocks, k, j, s) ==
    IF j >= decoder.RecoveryCount THEN s
    ELSE LET x_k == RecoveryIndex(decoder, blocks, k)
             y_k == decoder.ErasuresIndices[k]
             x_j == RecoveryIndex(decoder, blocks, j)
             y_j == decoder.ErasuresIndices[j]
             L_jk == gf256_div(s.g[j], gf256_add(x_j, y_k))
             U_kj == gf256_div(s.b[j], gf256_add(x_k, y_j))
         IN  GenerateLDUDecomposition_row(decoder, blocks, k, j + 1,
                 [s EXCEPT
                     !.matrix = Poke(@, s.matrix_L, L_jk),
                     !.matrix_L = @ + 1,
                     !.rotated_row_U = Poke(@, s.row_U, U_kj),
                     !.row_U = @ + 1,
                     !.g[j] = gf256_mul(@, gf256_div(gf256_add(x_j, x_k), gf256_add(x_j, y_k))),
                     !.b[j] = gf256_mul(@, gf256_div(gf256_add(y_j, y_k), gf256_add(y_j, x_k))),
                     !.stores = @ \cup {<<s.matrix_L, <<"L", j, k>>>>},
                     !.divisors = @ \cup {<<"x_j + y_k", gf256_add(x_j, y_k)>>,
                                          <<"x_k + y_j", gf256_add(x_k, y_j)>>,
                                          <<"y_j + x_k", gf256_add(y_j, x_k)>>}])

\* the (offset, entry) pairs of an array of entry names
StoresOf(array) == {<<o, array[o]>> : o \in DOMAIN array}

RECURSIVE GenerateLDUDecomposition_copy_backwards(_, _, _, _, _, _)
\* the rotated row is read from its far end
GenerateLDUDecomposition_copy_backwards(matrix, rotated_row_U, output_U, row_U, j, N) ==
    IF j >= N THEN matrix
    ELSE GenerateLDUDecomposition_copy_backwards(
             Poke(matrix, output_U, rotated_row_U[N - 1 - j]),
             rotated_row_U, output_U - j, row_U + 1, j + 1, N)

RECURSIVE GenerateLDUDecomposition_copy(_, _, _, _, _, _)
\* for (j = k + 1; j < N; ++j) { *output_U = *row_U++; output_U -= j; }
GenerateLDUDecomposition_copy(matrix, rotated_row_U, output_U, row_U, j, N) ==
    IF j >= N THEN matrix
    ELSE GenerateLDUDecomposition_copy(Poke(matrix, output_U, rotated_row_U[row_U]),
             rotated_row_U, output_U - j, row_U + 1, j + 1, N)

\* the rest of pivot step k once its row loop has given s1: the bulk divisions by
\* L_kk and U_kk, the copy of the rotated row into matrix_U, the new firstOffset_U
GenerateLDUDecomposition_divide(s1, k, N, row_L, L_kk, U_kk) ==
    [s1 EXCEPT
        !.matrix =
            GenerateLDUDecomposition_copy(
                PutSlice(@, row_L,
                    gf256_div_mem(Slice(@, row_L, N - (k + 1)), Slice(@, row_L, N - (k + 1)),
                                  L_kk, N - (k + 1))),
                gf256_div_mem(Slice(s1.rotated_row_U, 0, N - (k + 1)),
                              Slice(s1.rotated_row_U, 0, N - (k + 1)), U_kk, N - (k + 1)),
                s1.last_U + s1.firstOffset_U, 0, k + 1, N),
        !.rotated_row_U =
            PutSlice(@, 0, gf256_div_mem(Slice(@, 0, N - (k + 1)), Slice(@, 0, N - (k + 1)),
                                         U_kk, N - (k + 1))),
        !.firstOffset_U = @ - (k + 2),
        !.stores = @ \cup StoresOf(GenerateLDUDecomposition_copy(<<>>,
                                       [i \in 0..(N - (k + 2)) |-> <<"U", k, k + 1 + i>>],
                                       s1.last_U + s1.firstOffset_U, 0, k + 1, N)),
        !.divisors = @ \cup {<<"L_kk", L_kk>>, <<"U_kk", U_kk>>}]

\* pivot step k on the loop state s, D_kk, L_kk and U_kk computed
GenerateLDUDecomposition_pivot(decoder, blocks, diag_D, k, s, D_kk, L_kk, U_kk) ==
    GenerateLDUDecomposition_divide(
        GenerateLDUDecomposition_row(decoder, blocks, k, k + 1,
            [s EXCEPT !.matrix = Poke(@, diag_D + k, gf256_mul(D_kk, gf256_mul(L_kk, U_kk))),
                      !.row_U = 0,
                      !.stores = @ \cup {<<diag_D + k, <<"D", k, k>>>>},
                      !.divisors = @ \cup {<<"D_kk", D_kk>>}]),
        k, decoder.RecoveryCount, s.matrix_L, L_kk, U_kk)

RECURSIVE GenerateLDUDecomposition_pivots_x_0(_, _, _, _, _)
\* D_kk is taken between x_k and x_0
GenerateLDUDecomposition_pivots_x_0(decoder, blocks, diag_D, k, s) ==
    IF k >= decoder.RecoveryCount - 1 THEN s
    ELSE LET x_0 == U8(decoder.Params.OriginalCount)
             x_k == RecoveryIndex(decoder, blocks, k)
             y_k == decoder.ErasuresIndices[k]
             D_kk == gf256_add(x_k, x_0)
         IN  GenerateLDUDecomposition_pivots_x_0(decoder, blocks, diag_D, k + 1,
                 GenerateLDUDecomposition_pivot(decoder, blocks, diag_D, k, s,
                     D_kk,
                     gf256_div(s.g[k], D_kk),
                     gf256_mul(gf256_div(s.b[k], D_kk), gf256_add(x_0, y_k))))

RECURSIVE GenerateLDUDecomposition_pivots(_, _, _, _, _)
\* for (k = 0; k < N - 1; ++k)
GenerateLDUDecomposition_pivots(decoder, blocks, diag_D, k, s) ==
    IF k >= decoder.RecoveryCount - 1 THEN s
    ELSE LET x_0 == U8(decoder.Params.OriginalCount)
             x_k == RecoveryIndex(decoder, blocks, k)
             y_k == decoder.ErasuresIndices[k]
             D_kk == gf256_add(x_k, y_k)
         IN  GenerateLDUDecomposition_pivots(decoder, blocks, diag_D, k + 1,
                 GenerateLDUDecomposition_pivot(decoder, blocks, diag_D, k, s,
                     D_kk,
                     gf256_div(s.g[k], D_kk),
                     gf256_mul(gf256_div(s.b[k], D_kk), gf256_add(x_0, y_k))))

RECURSIVE GenerateLDUDecomposition_scale(_, _, _, _)
\* for (j = N - 1; j > 0; --j): multiply (x_0 + y_j) into the j entries at row_U
GenerateLDUDecomposition_scale(decoder, matrix, row_U, j) ==
    IF j <= 0 THEN matrix
    ELSE LET x_0 == U8(decoder.Params.OriginalCount)
             y_j == decoder.ErasuresIndices[j]
         IN  GenerateLDUDecomposition_scale(decoder,
                 PutSlice(matrix, row_U,
                     gf256_mul_mem(Slice(matrix, row_U, j), Slice(matrix, row_U, j),
                                   gf256_add(x_0, y_j), j)),
                 row_U + j, j - 1)

\* U_nn without the factor (x_0 + y_n)
GenerateLDUDecomposition_last_unscaled(decoder, blocks, diag_D, matrix_U, s) ==
    LET N == decoder.RecoveryCount
        x_n == RecoveryIndex(decoder, blocks, N - 1)
        y_n == decoder.ErasuresIndices[N - 1]
    IN  [s EXCEPT
            !.matrix = Poke(GenerateLDUDecomposition_scale(decoder, @, matrix_U, N - 1),
                            diag_D + (N - 1),
                            gf256_div(gf256_mul(s.g[N - 1], s.b[N - 1]), gf256_add(x_n, y_n))),
            !.stores = @ \cup {<<diag_D + (N - 1), <<"D", N - 1, N - 1>>>>},
            !.divisors = @ \cup {<<"x_n + y_n", gf256_add(x_n, y_n)>>}]

\* from the loop state s after the pivot loop: the scaling of U and the last diagonal
\* entry; gives s with the finished matrix
GenerateLDUDecomposition_last(decoder, blocks, diag_D, matrix_U, s) ==
    LET N == decoder.RecoveryCount
        x_0 == U8(decoder.Params.OriginalCount)
        x_n == RecoveryIndex(decoder, blocks, N - 1)
        y_n == decoder.ErasuresIndices[N - 1]
        L_nn == s.g[N - 1]
        U_nn == gf256_mul(s.b[N - 1], gf256_add(x_0, y_n))
    IN  [s EXCEPT
            !.matrix = Poke(GenerateLDUDecomposition_scale(decoder, @, matrix_U, N - 1),
                            diag_D + (N - 1),
                            gf256_div(gf256_mul(L_nn, U_nn), gf256_add(x_n, y_n))),
            !.stores = @ \cup {<<diag_D + (N - 1), <<"D", N - 1, N - 1>>>>},
            !.divisors = @ \cup {<<"x_n + y_n", gf256_add(x_n, y_n)>>}]

\* gives the final loop state: matrix is the allocation with L, D and U stored in it
GenerateLDUDecomposition(decoder, blocks, matrix, matrix_L, diag_D, matrix_U) ==
    GenerateLDUDecomposition_last(decoder, blocks, diag_D, matrix_U,
        GenerateLDUDecomposition_pivots(decoder, blocks, diag_D, 0,
            [g |-> [i \in 0..(decoder.RecoveryCount - 1) |-> 1],
             b |-> [i \in 0..(decoder.RecoveryCount - 1) |-> 1],
             matrix |-> matrix,
             matrix_L |-> matrix_L,
             rotated_row_U |-> <<>>,
             row_U |-> 0,
             last_U |-> matrix_U + (((decoder.RecoveryCount - 1) * decoder.RecoveryCount) \div 2) - 1,
             firstOffset_U |-> 0,
             stores |-> {},
             divisors |-> {}]))

(***************************************************************************)
(* Decoding: the solver                                                    *)
(***************************************************************************)
StackAllocSize == 2048

RecoveryBlock(decoder, blocks, i) == blocks[decoder.Recovery[i]].Block

RECURSIVE Decode_originals_swapped(_, _, _, _, _)
\* the bulk multiply-add with source and destination exchanged
Decode_originals_swapped(decoder, blocks, mem, originalIndex, recoveryIndex) ==
    IF originalIndex >= decoder.OriginalCount THEN mem
    ELSE IF recoveryIndex >= decoder.RecoveryCount
    THEN Decode_originals_swapped(decoder, blocks, mem, originalIndex + 1, 0)
    ELSE LET x_0 == U8(decoder.Params.OriginalCount)
             inBlock == blocks[decoder.Original[originalIndex]].Block
             inRow == blocks[decoder.Original[originalIndex]].Index
             outBlock == RecoveryBlock(decoder, blocks, recoveryIndex)
             x_i == RecoveryIndex(decoder, blocks, recoveryIndex)
         IN  Decode_originals_swapped(decoder, blocks,
                 [mem EXCEPT ![inBlock] =
                     gf256_muladd_mem(@, GetMatrixElement(x_i, x_0, inRow), mem[outBlock],
                                      decoder.Params.BlockBytes)],
                 originalIndex, recoveryIndex + 1)

RECURSIVE Decode_originals(_, _, _, _, _)
\* eliminate the original data from the recovery rows (both loops)
Decode_originals(decoder, blocks, mem, originalIndex, recoveryIndex) ==
    IF originalIndex >= decoder.OriginalCount THEN mem
    ELSE IF recoveryIndex >= decoder.RecoveryCount
    THEN Decode_originals(decoder, blocks, mem, originalIndex + 1, 0)
    ELSE LET x_0 == U8(decoder.Params.OriginalCount)
             inBlock == blocks[decoder.Original[originalIndex]].Block
             inRow == blocks[decoder.Original[originalIndex]].Index
             outBlock == RecoveryBlock(decoder, blocks, recoveryIndex)
             x_i == RecoveryIndex(decoder, blocks, recoveryIndex)
         IN  Decode_originals(decoder, blocks,
                 [mem EXCEPT ![outBlock] =
                     gf256_muladd_mem(@, GetMatrixElement(x_i, x_0, inRow), mem[inBlock],
                                      decoder.Params.BlockBytes)],
                 originalIndex, recoveryIndex + 1)

RECURSIVE Decode_lower(_, _, _, _, _, _, _)
\* eliminate the lower left triangle: for j, for i = j + 1 .. N - 1, c_ij = *matrix_L++
Decode_lower(decoder, blocks, mem, matrix, matrix_L, j, i) ==
    IF j >= decoder.RecoveryCount - 1 THEN mem
    ELSE IF i >= decoder.RecoveryCount
    THEN Decode_lower(decoder, blocks, mem, matrix, matrix_L, j + 1, j + 2)
    ELSE LET block_j == RecoveryBlock(decoder, blocks, j)
             block_i == RecoveryBlock(decoder, blocks, i)
         IN  Decode_lower(decoder, blocks,
                 [mem EXCEPT ![block_i] =
                     gf256_muladd_mem(@, matrix[matrix_L], mem[block_j],
                                      decoder.Params.BlockBytes)],
                 matrix, matrix_L + 1, j, i + 1)

RECURSIVE Decode_diagonal(_, _, _, _, _)
\* eliminate the diagonal; st = [blocks, mem]
Decode_diagonal(decoder, st, matrix, diag_D, i) ==
    IF i >= decoder.RecoveryCount THEN st
    ELSE Decode_diagonal(decoder,
             [blocks |-> [st.blocks EXCEPT
                             ![decoder.Recovery[i]].Index = decoder.ErasuresIndices[i]],
              mem |-> [st.mem EXCEPT ![RecoveryBlock(decoder, st.blocks, i)] =
                          gf256_div_mem(@, @, matrix[diag_D + i], decoder.Params.BlockBytes)]],
             matrix, diag_D, i + 1)

RECURSIVE Decode_upper(_, _, _, _, _, _, _)
\* eliminate the upper right triangle: for j = N - 1 .. 1, for i = j - 1 .. 0, c_ij = *matrix_U++
Decode_upper(decoder, blocks, mem, matrix, matrix_U, j, i) ==
    IF j < 1 THEN mem
    ELSE IF i < 0
    THEN Decode_upper(decoder, blocks, mem, matrix, matrix_U, j - 1, j - 2)
    ELSE LET block_j == RecoveryBlock(decoder, blocks, j)
             block_i == RecoveryBlock(decoder, blocks, i)
         IN  Decode_upper(decoder, blocks,
                 [mem EXCEPT ![block_i] =
                     gf256_muladd_mem(@, matrix[matrix_U], mem[block_j],
                                      decoder.Params.BlockBytes)],
                 matrix, matrix_U + 1, j, i - 1)

\* the upper elimination on st = [blocks, mem] as the diagonal pass left them, and kfree;
\* ldu is what GenerateLDUDecomposition gave
Decode_finish(decoder, st, ldu, matrix_U, dynamic) ==
    [blocks |-> st.blocks,
     mem |-> Decode_upper(decoder, st.blocks, st.mem, ldu.matrix, matrix_U,
                          decoder.RecoveryCount - 1, decoder.RecoveryCount - 2),
     kmalloc |-> IF dynamic THEN 1 ELSE 0,
     kfree |-> IF dynamic THEN 1 ELSE 0,
     ldu |-> ldu]

\* the three elimination passes with the decomposition ldu
Decode_eliminate(decoder, blocks, mem, ldu, matrix_L, diag_D, matrix_U, dynamic) ==
    Decode_finish(decoder,
        Decode_diagonal(decoder,
            [blocks |-> blocks,
             mem |-> Decode_lower(decoder, blocks, mem, ldu.matrix, matrix_L, 0, 1)],
            ldu.matrix, diag_D, 0),
        ldu, matrix_U, dynamic)

\* gives [blocks, mem, kmalloc: allocations made, kfree: allocations released,
\* ldu: the decomposition used]
Decode(decoder, blocks, mem) ==
    LET N == decoder.RecoveryCount
        requiredSpace == N * N
        matrix_U == 0
        diag_D == matrix_U + (((N - 1) * N) \div 2)
        matrix_L == diag_D + N
    IN  Decode_eliminate(decoder, blocks,
            Decode_originals(decoder, blocks, mem, 0, 0),
            GenerateLDUDecomposition(decoder, blocks, <<>>, matrix_L, diag_D, matrix_U),
            matrix_L, diag_D, matrix_U, requiredSpace > StackAllocSize)

(***************************************************************************)
(* Decoding: entry point                                                   *)
(***************************************************************************)
\* what a call leaves: ret, the descriptors, the buffers, the return taken (path),
\* the allocations made and released, the decoder state, and the decomposition the
\* solver used (<<>> when it did not run)
Outcome(ret, blocks, mem, path, kmalloc, kfree, decoder) ==
    [ret |-> ret, blocks |-> blocks, mem |-> mem, path |-> path,
     kmalloc |-> kmalloc, kfree |-> kfree, decoder |-> decoder, ldu |-> <<>>]

DecodeM1_outcome(r, decoder) == Outcome(0, r.blocks, r.mem, "DecodeM1", 1, 0, decoder)

Decode_outcome(r, decoder) ==
    [Outcome(0, r.blocks, r.mem, "Decode", 1 + r.kmalloc, r.kfree, decoder)
        EXCEPT !.ldu = r.ldu]

\* the m = 1 path is chosen by the number of recovery blocks supplied
cm256_decode_blocks_by_supplied(params, blocks, mem, init) ==
    IF init.ret # 0
    THEN Outcome(-5, blocks, mem, "DuplicateIndex", 1, 0, init.decoder)
    ELSE IF init.decoder.RecoveryCount <= 0
    THEN Outcome(0, blocks, mem, "NothingErased", 1, 0, init.decoder)
    ELSE IF init.decoder.RecoveryCount = 1
    THEN DecodeM1_outcome(DecodeM1(init.decoder, blocks, mem), init.decoder)
    ELSE Decode_outcome(Decode(init.decoder, blocks, mem), init.decoder)

\* cm256_decode from the call of Initialize on, init being what Initialize gave
cm256_decode_blocks(params, blocks, mem, init) ==
    IF init.ret # 0
    THEN Outcome(-5, blocks, mem, "DuplicateIndex", 1, 0, init.decoder)
    ELSE IF init.decoder.RecoveryCount <= 0
    THEN Outcome(0, blocks, mem, "NothingErased", 1, 0, init.decoder)
    ELSE IF params.RecoveryCount = 1
    THEN DecodeM1_outcome(DecodeM1(init.decoder, blocks, mem), init.decoder)
    ELSE Decode_outcome(Decode(init.decoder, blocks, mem), init.decoder)

\* BlockBytes is not validated
cm256_decode_any_size(params, blocks, mem, state) ==
    IF params.OriginalCount <= 0 \/ params.RecoveryCount <= 0
    THEN Outcome(-1, blocks, mem, "InvalidParams", 1, 0, state)
    ELSE IF params.OriginalCount + params.RecoveryCount > 256
    THEN Outcome(-2, blocks, mem, "TooLarge", 1, 0, state)
    ELSE IF blocks = NULL
    THEN Outcome(-3, blocks, mem, "NullArg", 1, 0, state)
    ELSE IF params.OriginalCount = 1
    THEN Outcome(0, Ptr([Deref(blocks) EXCEPT ![0].Index = 0]), mem, "OneBlock", 1, 0, state)
    ELSE LET r == cm256_decode_blocks(params, Deref(blocks), mem,
                                      Initialize(state, params, Deref(blocks)))
         IN  [r EXCEPT !.blocks = Ptr(@)]

\* blocks: pointer to the descriptor array; state: the CM256Decoder as kmalloc gave it
\* (kmalloc is taken to succeed, and is the 1 of every outcome's kmalloc)
cm256_decode(params, blocks, mem, state) ==
    IF params.OriginalCount <= 0 \/ params.RecoveryCount <= 0 \/ params.BlockBytes <= 0
    THEN Outcome(-1, blocks, mem, "InvalidParams", 1, 0, state)
    ELSE IF params.OriginalCount + params.RecoveryCount > 256
    THEN Outcome(-2, blocks, mem, "TooLarge", 1, 0, state)
    ELSE IF blocks = NULL
    THEN Outcome(-3, blocks, mem, "NullArg", 1, 0, state)
    ELSE IF params.OriginalCount = 1
    THEN Outcome(0, Ptr([Deref(blocks) EXCEPT ![0].Index = 0]), mem, "OneBlock", 1, 0, state)
    ELSE LET r == cm256_decode_blocks(params, Deref(blocks), mem,
                                      Initialize(state, params, Deref(blocks)))
         IN  [r EXCEPT !.blocks = Ptr(@)]

(***************************************************************************)
(* State                                                                   *)
(***************************************************************************)
VARIABLES
    pc,          \* where the caller is
    initLog,     \* the last cm256_init_ call: version, ret, whether gf256_init ran, its result
    params,      \* cm256_encoder_params
    orig,        \* filedatacopy: the original shards as generated
    mem,         \* the shard buffers: ids 0..k-1 originalFileData, k..k+m-1 recoveryBlocks
    blocks,      \* the caller's descriptor array: [Block, Index]
    args,        \* which pointer arguments the caller passes as NULL
    call,        \* the last library call: name, ret, mem and blocks as they were before,
                 \* and for cm256_decode the decoder state and the decomposition at return
    heap,        \* allocations of the library that are outstanding
    decodes,     \* cm256_decode calls made on the current descriptors
    encoded      \* cm256_encode returned 0: the recovery buffers hold its output

vars == <<pc, initLog, params, orig, mem, blocks, args, call, heap, decodes, encoded>>

Max(a, b) == IF a >= b THEN a ELSE b

\* values an uninitialised byte is seen with
UninitBytes == {0, 165}

\* the caller's data generator (get_random_bytes / memset in ExampleFileUsage)
Pattern(seed, i, b) == (1 + 97 * seed + 59 * i + 7 * i * i + 31 * b) % 256

NoCall ==
    [name |-> "none", ret |-> 0, mem |-> <<>>, blocks |-> <<>>, path |-> "none",
     RecoveryCount |-> 0, kmalloc |-> 0, kfree |-> 0, decoder |-> <<>>, ldu |-> <<>>]

Init ==
    /\ pc = "boot"
    /\ initLog = [version |-> 0, ret |-> 0, gfCalled |-> FALSE, gfRet |-> 0]
    /\ params = [BlockBytes |-> 0, OriginalCount |-> 0, RecoveryCount |-> 0]
    /\ orig = <<>>
    /\ mem = <<>>
    /\ blocks = <<>>
    /\ args = [originals |-> FALSE, recoveryBlocks |-> FALSE, blocks |-> FALSE]
    /\ call = NoCall
    /\ heap = 0
    /\ decodes = 0
    /\ encoded = FALSE

(***************************************************************************)
(* Initialization                                                          *)
(***************************************************************************)
\* results gf256_init() can give: success or a backend code
Gf256InitResults == {0, -1}

\* the result of gf256_init() is dropped
cm256_init_ignoring(version, gfRet) ==
    IF version # CM256_VERSION
    THEN [version |-> version, ret |-> -10, gfCalled |-> FALSE, gfRet |-> 0]
    ELSE [version |-> version, ret |-> 0, gfCalled |-> TRUE, gfRet |-> gfRet]

\* the call's outcome, gf256_init() returning gfRet if it is reached
cm256_init_(version, gfRet) ==
    IF version # CM256_VERSION
    THEN [version |-> version, ret |-> -10, gfCalled |-> FALSE, gfRet |-> 0]
    ELSE [version |-> version, ret |-> gfRet, gfCalled |-> TRUE, gfRet |-> gfRet]

\* if (cm256_init()) return 1;
CallInit ==
    /\ pc = "boot"
    /\ \E version \in {CM256_VERSION, CM256_VERSION + 1}, gfRet \in Gf256InitResults :
          /\ initLog' = cm256_init_(version, gfRet)
          /\ pc' = IF initLog'.ret = 0 THEN "ready" ELSE "failed"
    /\ UNCHANGED <<params, orig, mem, blocks, args, call, heap, decodes, encoded>>

(***************************************************************************)
(* The caller (ExampleFileUsage)                                           *)
(***************************************************************************)
KChoices == -1..MaxK
\* 255 makes k + m reach 256 with k = 1 and exceed it with k >= 2
MChoices == (-1..MaxM) \cup {255}
BChoices == -1..MaxB

\* fill params, generate the data, point the descriptors at it, allocate recoveryBlocks
Prepare ==
    /\ pc = "ready"
    /\ \E k \in KChoices, m \in MChoices, B \in BChoices, seed \in 0..MaxSeed,
          junk \in UninitBytes, nullOriginals, nullRecovery \in BOOLEAN :
          LET data == [i \in 0..(k - 1) |-> [b \in 0..(B - 1) |-> Pattern(seed, i, b)]]
          IN  /\ params' = [BlockBytes |-> B, OriginalCount |-> k, RecoveryCount |-> m]
              /\ orig' = data
              /\ mem' = [id \in 0..(Max(k, 0) + Max(m, 0) - 1) |->
                           IF id < k THEN data[id] ELSE [b \in 0..(B - 1) |-> junk]]
              /\ blocks' = [i \in 0..(k - 1) |-> [Block |-> i, Index |-> junk]]
              /\ args' = [originals |-> nullOriginals, recoveryBlocks |-> nullRecovery,
                          blocks |-> FALSE]
    /\ pc' = "prepared"
    /\ UNCHANGED <<initLog, call, heap, decodes, encoded>>

\* cm256_encode(params, blocks, recoveryBlocks)
CallEncode ==
    /\ pc = "prepared"
    /\ \E r \in {cm256_encode(params,
                    IF args.originals THEN NULL ELSE Ptr(blocks),
                    IF args.recoveryBlocks THEN NULL ELSE Ptr(Max(params.OriginalCount, 0)),
                    mem)} :
           /\ mem' = r.mem
           /\ call' = [NoCall EXCEPT !.name = "encode", !.ret = r.ret, !.mem = mem,
                                      !.blocks = blocks]
           /\ encoded' = (r.ret = 0)
    /\ pc' = "encoded"
    /\ UNCHANGED <<initLog, params, orig, blocks, args, heap, decodes>>

\* descriptor index choices: any indices in [0, k+m), originals possibly repeated,
\* recovery indices pairwise distinct
IndexChoices(k, m) ==
    {idx \in [0..(k - 1) -> 0..(k + m - 1)] :
        \A i, j \in 0..(k - 1) : (i # j /\ idx[i] >= k /\ idx[j] >= k) => idx[i] # idx[j]}

\* initialise the indices, then substitute recovery blocks for lost originals:
\* descriptor i names shard idx[i] and points at its buffer
Substitute ==
    /\ pc = "encoded"
    /\ \E nullBlocks \in BOOLEAN :
       \E idx \in IF encoded /\ ~nullBlocks
                  THEN IndexChoices(params.OriginalCount, params.RecoveryCount)
                  ELSE {[i \in 0..(params.OriginalCount - 1) |-> i]} :
          /\ blocks' = [i \in 0..(params.OriginalCount - 1) |->
                          [Block |-> idx[i],
                           Index |-> IF idx[i] < params.OriginalCount
                                     THEN cm256_get_original_block_index(params, idx[i])
                                     ELSE cm256_get_recovery_block_index(
                                              params, idx[i] - params.OriginalCount)]]
          /\ args' = [args EXCEPT !.blocks = nullBlocks]
    /\ pc' = "substituted"
    /\ UNCHANGED <<initLog, params, orig, mem, call, heap, decodes, encoded>>

\* cm256_decode(params, blocks)
CallDecode ==
    /\ pc \in {"substituted", "decoded"}
    /\ decodes < MaxDecodes
    /\ \E junk \in UninitBytes :
       \E r \in {cm256_decode(params, IF args.blocks THEN NULL ELSE Ptr(blocks), mem,
                              CM256Decoder(junk))} :
              /\ mem' = r.mem
              /\ blocks' = IF args.blocks THEN blocks ELSE Deref(r.blocks)
              /\ call' = [name |-> "decode", ret |-> r.ret, mem |-> mem, blocks |-> blocks,
                          path |-> r.path, RecoveryCount |-> r.decoder.RecoveryCount,
                          kmalloc |-> r.kmalloc, kfree |-> r.kfree,
                          decoder |-> r.decoder, ldu |-> r.ldu]
              /\ heap' = heap + r.kmalloc - r.kfree
    /\ decodes' = decodes + 1
    /\ pc' = "decoded"
    /\ UNCHANGED <<initLog, params, orig, args, encoded>>

Next ==
    \/ CallInit
    \/ Prepare
    \/ CallEncode
    \/ Substitute
    \/ CallDecode

Spec == Init /\ [][Next]_vars

(***************************************************************************)
(* A caller with more shards: OriginalCount = RecoveryCount = MaxN, one    *)
(* byte per shard, any non-empty set of originals lost, replaced by        *)
(* recovery blocks first, first + step, ... in ascending or descending     *)
(* order.  The library calls are the same.                                 *)
(***************************************************************************)
PrepareLDU ==
    /\ pc = "ready"
    /\ \E seed \in 0..MaxSeed, junk \in UninitBytes :
          LET data == [i \in 0..(MaxN - 1) |-> [b \in 0..0 |-> Pattern(seed, i, b)]]
          IN  /\ params' = [BlockBytes |-> 1, OriginalCount |-> MaxN, RecoveryCount |-> MaxN]
              /\ orig' = data
              /\ mem' = [id \in 0..(2 * MaxN - 1) |->
                           IF id < MaxN THEN data[id] ELSE [b \in 0..0 |-> junk]]
              /\ blocks' = [i \in 0..(MaxN - 1) |-> [Block |-> i, Index |-> junk]]
              /\ args' = [originals |-> FALSE, recoveryBlocks |-> FALSE, blocks |-> FALSE]
    /\ pc' = "prepared"
    /\ UNCHANGED <<initLog, call, heap, decodes, encoded>>

\* the recovery block standing in for the lost original i
Replacement(lost, first, step, descending, i) ==
    LET rank == Cardinality({y \in lost : y < i})
    IN  first + step * (IF descending THEN Cardinality(lost) - 1 - rank ELSE rank)

SubstituteLDU ==
    /\ pc = "encoded"
    /\ encoded
    /\ \E lost \in (SUBSET (0..(params.OriginalCount - 1))) \ {{}},
          first \in 0..(params.RecoveryCount - 1), step \in 1..2, descending \in BOOLEAN :
          /\ first + step * (Cardinality(lost) - 1) < params.RecoveryCount
          /\ blocks' = [i \in 0..(params.OriginalCount - 1) |->
                          IF i \in lost
                          THEN [Block |-> params.OriginalCount
                                            + Replacement(lost, first, step, descending, i),
                                Index |-> cm256_get_recovery_block_index(params,
                                              Replacement(lost, first, step, descending, i))]
                          ELSE [Block |-> i,
                                Index |-> cm256_get_original_block_index(params, i)]]
          /\ args' = [args EXCEPT !.blocks = FALSE]
    /\ pc' = "substituted"
    /\ UNCHANGED <<initLog, params, orig, mem, call, heap, decodes, encoded>>

NextLDU ==
    \/ CallInit
    \/ PrepareLDU
    \/ CallEncode
    \/ SubstituteLDU
    \/ CallDecode

SpecLDU == Init /\ [][NextLDU]_vars

(***************************************************************************)
(* Properties                                                              *)
(***************************************************************************)
K == params.OriginalCount
M == params.RecoveryCount
B == params.BlockBytes

\* cm256_encode has just returned: call holds its result, mem and blocks what it left
Encoded == pc = "encoded" /\ call.name = "encode"

\* cm256_decode has just returned
Decoded == pc = "decoded" /\ call.name = "decode"

ValidParams == K >= 1 /\ M >= 1 /\ B >= 1 /\ K + M <= 256

\* the descriptors bl carry pairwise distinct indices in [0, k+m)
DistinctIndices(bl) ==
    /\ \A i \in DOMAIN bl : bl[i].Index >= 0 /\ bl[i].Index < K + M
    /\ \A i, j \in DOMAIN bl : i # j => bl[i].Index # bl[j].Index

\* two of the descriptors bl carry the same original index
DuplicateOriginal(bl) ==
    \E i, j \in DOMAIN bl : i # j /\ bl[i].Index = bl[j].Index /\ bl[i].Index < K

RECURSIVE XorOfOriginals(_, _)
\* the XOR of byte b of the originals 0..j-1
XorOfOriginals(j, b) ==
    IF j = 0 THEN 0 ELSE Xor(XorOfOriginals(j - 1, b), orig[j - 1][b])

\* a(x_i, x_0, y_j) = (y_j + x_0) / (x_i + y_j)
CauchyElement(x_i, x_0, y_j) == gf256_div(Xor(y_j, x_0), Xor(x_i, y_j))

RECURSIVE CauchyRowSum(_, _, _)
\* the sum over the columns 0..j-1 of a(x_i, k, column) * orig[column][b]
CauchyRowSum(x_i, j, b) ==
    IF j = 0 THEN 0
    ELSE Xor(CauchyRowSum(x_i, j - 1, b),
             gf256_mul(CauchyElement(x_i, K, j - 1), orig[j - 1][b]))

\* C1: round trip. After cm256_encode succeeded, a cm256_decode given k descriptors
\* with pairwise distinct indices in [0, k+m), each pointing at the shard it names,
\* returns 0 and leaves every descriptor's buffer equal to the original shard named
\* by its Index, the k indices being exactly 0..k-1.
C1_RoundTrip ==
    (Decoded /\ encoded /\ ~args.blocks /\ DistinctIndices(call.blocks))
    => /\ call.ret = 0
       /\ \A i \in DOMAIN blocks :
             /\ blocks[i].Index \in DOMAIN orig
             /\ mem[blocks[i].Block] = orig[blocks[i].Index]
       /\ {blocks[i].Index : i \in DOMAIN blocks} = 0..(K - 1)

\* the solver ran on two or more recovery blocks given out of index order
C1_Witness ==
    /\ Decoded /\ encoded /\ ~args.blocks /\ DistinctIndices(call.blocks)
    /\ call.path = "Decode" /\ call.RecoveryCount >= 2 /\ K >= 3
    /\ \E i, j \in DOMAIN call.blocks :
          i < j /\ call.blocks[i].Index > call.blocks[j].Index /\ call.blocks[j].Index >= K
    /\ call.ret = 0

\* C2: for k >= 2 the first recovery shard written by cm256_encode is the XOR of
\* all k original shards.
C2_FirstRowIsParity ==
    (Encoded /\ call.ret = 0 /\ K >= 2)
    => \A b \in 0..(B - 1) : mem[K][b] = XorOfOriginals(K, b)

\* encode succeeded with k = 2, where the follow-up XOR loop does not run
C2_Witness ==
    /\ Encoded /\ call.ret = 0 /\ K = 2
    /\ \E b \in 0..(B - 1) : mem[K][b] # 0

\* C3: with k = 1 every recovery shard written by cm256_encode is a copy of the
\* single original shard.
C3_OneOriginalCopied ==
    (Encoded /\ call.ret = 0 /\ K = 1)
    => \A r \in 0..(M - 1) : mem[K + r] = orig[0]

\* encode succeeded with k = 1 and several recovery shards over junk
C3_Witness ==
    /\ Encoded /\ call.ret = 0 /\ K = 1 /\ M >= 2
    /\ call.mem[K + 1] # orig[0]
    /\ mem[K + 1] = orig[0]

\* C4: cm256_encode and cm256_decode return -1 when any of k, m, B is <= 0, -2 when
\* all are positive and k + m > 256, -3 when the parameters are valid and a required
\* pointer is NULL; in each case no buffer byte and no descriptor Index is written.
C4_Validation ==
    LET nullArg == IF Encoded
                   THEN args.originals \/ args.recoveryBlocks
                   ELSE args.blocks
        untouched == mem = call.mem /\ blocks = call.blocks
    IN  (Encoded \/ Decoded)
        => /\ (K <= 0 \/ M <= 0 \/ B <= 0) => (call.ret = -1 /\ untouched)
           /\ (K > 0 /\ M > 0 /\ B > 0 /\ K + M > 256) => (call.ret = -2 /\ untouched)
           /\ (ValidParams /\ nullArg) => (call.ret = -3 /\ untouched)

\* decode rejected k + m > 256
C4_Witness ==
    Decoded /\ K > 0 /\ M > 0 /\ B > 0 /\ K + M > 256 /\ call.ret = -2

\* C5: for valid parameters with k >= 2, when two descriptors carry the same
\* original index cm256_decode returns -5 with every buffer and Index unmodified.
C5_DuplicateIndex ==
    (Decoded /\ ValidParams /\ K >= 2 /\ ~args.blocks
        /\ DuplicateOriginal(call.blocks))
    => (call.ret = -5 /\ mem = call.mem /\ blocks = call.blocks)

\* a duplicate original came with a recovery block among the descriptors
C5_Witness ==
    /\ Decoded /\ ValidParams /\ K >= 2 /\ ~args.blocks
    /\ DuplicateOriginal(call.blocks)
    /\ \E i \in DOMAIN call.blocks : call.blocks[i].Index >= K
    /\ call.ret = -5

\* C6: when all k descriptors are distinct originals cm256_decode returns 0 and
\* leaves every buffer and every Index unchanged; so a decode run on the output of
\* a successful decode changes nothing.
C6_NothingErased ==
    (Decoded /\ ValidParams /\ ~args.blocks
        /\ DistinctIndices(call.blocks)
        /\ \A i \in DOMAIN call.blocks : call.blocks[i].Index < K)
    => (call.ret = 0 /\ mem = call.mem /\ blocks = call.blocks)

\* a second decode, on descriptors of which one points into the recovery output
C6_Witness ==
    /\ Decoded /\ ValidParams /\ ~args.blocks /\ K >= 2
    /\ DistinctIndices(call.blocks)
    /\ \A i \in DOMAIN call.blocks : call.blocks[i].Index < K
    /\ decodes = 2 /\ call.RecoveryCount = 0 /\ call.ret = 0
    /\ \E i \in DOMAIN call.blocks : call.blocks[i].Block >= K

\* C7: cm256_encode leaves the k original buffers unchanged and writes only the
\* recovery output; cm256_decode leaves the buffer and the Index of every descriptor
\* whose Index was < k unchanged and changes only buffers of descriptors whose
\* Index was >= k.
C7_OriginalsUntouched ==
    /\ Encoded
       => /\ blocks = call.blocks
          /\ \A id \in DOMAIN mem : (id < K \/ id >= K + M) => mem[id] = call.mem[id]
    /\ Decoded
       => /\ \A i \in DOMAIN call.blocks :
                call.blocks[i].Index < K
                => /\ blocks[i] = call.blocks[i]
                   /\ mem[call.blocks[i].Block] = call.mem[call.blocks[i].Block]
          /\ \A i \in DOMAIN call.blocks : blocks[i].Block = call.blocks[i].Block
          /\ \A id \in DOMAIN mem :
                mem[id] # call.mem[id]
                => \E i \in DOMAIN call.blocks :
                      call.blocks[i].Block = id /\ call.blocks[i].Index >= K

\* the solver rewrote a recovery buffer beside a surviving original
C7_Witness ==
    /\ Decoded /\ call.path = "Decode"
    /\ \E i, j \in DOMAIN call.blocks :
          /\ call.blocks[i].Index < K
          /\ call.blocks[j].Index >= K
          /\ mem[call.blocks[j].Block] # call.mem[call.blocks[j].Block]

\* C8: no allocation made by cm256_decode is outstanding when it returns.
C8_NoAllocationOutstanding ==
    Decoded => heap = 0

\* C9: cm256_init_ returns -10 without running gf256_init when the version differs
\* from CM256_VERSION, and otherwise returns what gf256_init returned.
C9_Init ==
    pc # "boot"
    => /\ initLog.version # CM256_VERSION => (initLog.ret = -10 /\ ~initLog.gfCalled)
       /\ initLog.version = CM256_VERSION
          => (initLog.gfCalled /\ initLog.ret = initLog.gfRet)

\* the version matched and gf256_init failed
C9_Witness ==
    pc = "failed" /\ initLog.version = CM256_VERSION /\ initLog.gfCalled /\ initLog.ret # 0

\* C10: for k >= 2 every byte b of recovery shard r is the sum over j of
\* a(k+r, k, j) * orig[j][b], and a(k, k, j) = 1 for every column j.
C10_CauchyRows ==
    (Encoded /\ call.ret = 0 /\ K >= 2)
    => /\ \A r \in 0..(M - 1), b \in 0..(B - 1) :
             mem[K + r][b] = CauchyRowSum(K + r, K, b)
       /\ \A j \in 0..(K - 1) : CauchyElement(K, K, j) = 1

\* encode wrote a row other than the parity row, with three originals
C10_Witness ==
    /\ Encoded /\ call.ret = 0 /\ K >= 3 /\ M >= 2
    /\ \E b \in 0..(B - 1) : mem[K + 1][b] # mem[K][b]

\* cm256_decode has just returned from the general solver
Solved == Decoded /\ call.path = "Decode"

\* the size of the system solved, and where Decode placed the three factors
SolvedN == call.decoder.RecoveryCount
Solved_matrix_U == 0
Solved_diag_D == Solved_matrix_U + (((SolvedN - 1) * SolvedN) \div 2)
Solved_matrix_L == Solved_diag_D + SolvedN

\* the coordinates of the system: row i is the i-th recovery block given, column j
\* the j-th erased original
Solved_x(i) == call.blocks[call.decoder.Recovery[i]].Index
Solved_y(j) == call.decoder.ErasuresIndices[j]

\* the packed positions: L column by column, each top-down; U column by column from
\* the last column to the second, each bottom-up
PackedOffset_L(i, j) ==
    Solved_matrix_L + (j * (SolvedN - 1) - ((j * (j - 1)) \div 2)) + (i - j - 1)
PackedOffset_U(i, j) ==
    Solved_matrix_U + ((((SolvedN - 1) * SolvedN) \div 2) - ((j * (j + 1)) \div 2)) + (j - 1 - i)

\* the factors read back, with unit diagonals for L and U
Packed_L(i, j) ==
    IF i = j THEN 1 ELSE IF i > j THEN call.ldu.matrix[PackedOffset_L(i, j)] ELSE 0
Packed_U(i, j) ==
    IF i = j THEN 1 ELSE IF i < j THEN call.ldu.matrix[PackedOffset_U(i, j)] ELSE 0
Packed_D(i) == call.ldu.matrix[Solved_diag_D + i]

RECURSIVE ProductLDU(_, _, _)
\* the sum over a < n of L[i][a] * D[a] * U[a][j]
ProductLDU(i, j, n) ==
    IF n = 0 THEN 0
    ELSE Xor(ProductLDU(i, j, n - 1),
             gf256_mul(Packed_L(i, n - 1), gf256_mul(Packed_D(n - 1), Packed_U(n - 1, j))))

\* C11: the factors GenerateLDUDecomposition stored, read back through the packed
\* layout with unit diagonals for L and U, satisfy L * D * U = G, where
\* G[i][j] = a(x_i', k, y_j), for every N >= 1.
C11_LDU ==
    Solved
    => \A i, j \in 0..(SolvedN - 1) :
          ProductLDU(i, j, SolvedN) = CauchyElement(Solved_x(i), K, Solved_y(j))

\* a system of the largest size whose recovery rows were given out of index order
\* and whose factors are not trivial
C11_Witness ==
    /\ Solved /\ SolvedN = MaxN
    /\ Solved_x(0) > Solved_x(1)
    /\ Packed_L(2, 1) > 1 /\ Packed_U(0, 2) > 1 /\ Packed_D(2) > 1

RECURSIVE ReadOrder_L(_, _, _)
\* the lower elimination pass: for j = 0 .. N-2, for i = j+1 .. N-1, the entry (i, j)
\* is taken from offset p, then p + 1, ...
ReadOrder_L(j, i, p) ==
    IF j >= SolvedN - 1 THEN {}
    ELSE IF i >= SolvedN THEN ReadOrder_L(j + 1, j + 2, p)
    ELSE {<<p, <<"L", i, j>>>>} \cup ReadOrder_L(j, i + 1, p + 1)

RECURSIVE ReadOrder_U(_, _, _)
\* the upper elimination pass: for j = N-1 .. 1, for i = j-1 .. 0
ReadOrder_U(j, i, p) ==
    IF j < 1 THEN {}
    ELSE IF i < 0 THEN ReadOrder_U(j - 1, j - 2, p)
    ELSE {<<p, <<"U", i, j>>>>} \cup ReadOrder_U(j, i - 1, p + 1)

\* the stores of the factorization into one of the three parts
StoresInto(part) == {st \in call.ldu.stores : st[2][1] = part}

Initialized == Decoded /\ call.path \in {"NothingErased", "DecodeM1", "Decode"}

\* f lists, in ascending order, exactly the members of the set S of integers
ListsAscending(f, n, S) ==
    /\ \A i \in 0..(n - 1) : f[i] \in S
    /\ \A i, j \in 0..(n - 1) : i < j => f[i] < f[j]
    /\ \A v \in S : \E i \in 0..(n - 1) : f[i] = v

\* C13: decoder bookkeeping. For k descriptors with pairwise distinct indices in
\* [0, k+m), after Initialize returned 0: OriginalCount + RecoveryCount = k;
\* Original[] holds exactly the descriptors with Index < k and Recovery[] exactly
\* those with Index >= k, both in input order; ErasuresIndices[0..RecoveryCount)
\* lists in ascending order exactly the original indices absent from the input.
C13_Bookkeeping ==
    (Initialized /\ DistinctIndices(call.blocks))
    => LET d == call.decoder
       IN  /\ d.OriginalCount + d.RecoveryCount = K
           /\ DOMAIN d.Original = 0..(d.OriginalCount - 1)
           /\ DOMAIN d.Recovery = 0..(d.RecoveryCount - 1)
           /\ ListsAscending(d.Original, d.OriginalCount,
                  {i \in DOMAIN call.blocks : call.blocks[i].Index < K})
           /\ ListsAscending(d.Recovery, d.RecoveryCount,
                  {i \in DOMAIN call.blocks : call.blocks[i].Index >= K})
           /\ ListsAscending(d.ErasuresIndices, d.RecoveryCount,
                  (0..(K - 1)) \ {call.blocks[i].Index : i \in DOMAIN call.blocks})

\* two originals are absent, the first original is present, the descriptors are out
\* of index order, and the decoder state was allocated over non-zero memory
C13_Witness ==
    /\ Initialized /\ DistinctIndices(call.blocks)
    /\ call.decoder.RecoveryCount = 2 /\ call.decoder.OriginalCount = 1
    /\ call.decoder.ErasuresIndices[0] = 1 /\ call.decoder.ErasuresIndices[1] = 2
    /\ call.decoder.ErasuresIndices[255] # 0
    /\ call.blocks[call.decoder.Original[0]].Index = 0
    /\ call.decoder.Original[0] > call.decoder.Recovery[0]

\* cm256_decode has just returned from the m = 1 path
SolvedM1 == Decoded /\ call.path = "DecodeM1"

RECURSIVE XorOfSurvivors(_, _, _)
\* the XOR of byte b of the buffers, as they were before the call, of the descriptors
\* 0..i-1 other than descriptor r
XorOfSurvivors(i, r, b) ==
    IF i = 0 THEN 0
    ELSE Xor(XorOfSurvivors(i - 1, r, b),
             IF i - 1 = r THEN 0 ELSE call.mem[call.blocks[i - 1].Block][b])

\* C14: m = 1 fast path. For k >= 2 and m = 1 with one original replaced by the
\* parity block, after DecodeM1 the recovery buffer is its previous content XORed
\* with every surviving original shard, which is the erased original, and the
\* recovery descriptor's Index is ErasuresIndices[0], the erased original's index.
C14_DecodeM1 ==
    (SolvedM1 /\ encoded /\ K >= 2 /\ M = 1 /\ DistinctIndices(call.blocks))
    => LET r == call.decoder.Recovery[0]
           buffer == call.blocks[r].Block
           erased == CHOOSE y \in 0..(K - 1) :
                        \A i \in DOMAIN call.blocks : call.blocks[i].Index # y
       IN  /\ call.decoder.RecoveryCount = 1
           /\ \A b \in 0..(B - 1) :
                 mem[buffer][b] = Xor(call.mem[buffer][b], XorOfSurvivors(K, r, b))
           /\ mem[buffer] = orig[erased]
           /\ call.decoder.ErasuresIndices[0] = erased
           /\ blocks[r].Index = erased
           /\ blocks[r].Block = buffer

\* two survivors (one add2_mem, no trailing add_mem), the middle original erased
C14_Witness ==
    /\ SolvedM1 /\ encoded /\ K = 3 /\ M = 1 /\ DistinctIndices(call.blocks)
    /\ call.decoder.ErasuresIndices[0] = 1
    /\ mem[K] # call.mem[K]
    /\ mem[K] = orig[1]

\* C15 as stated: after the bookkeeping succeeded (k >= 2), cm256_decode returns
\* without further work when the number of recovery blocks supplied is 0, runs
\* DecodeM1 when that number is exactly 1, and runs Decode otherwise.
C15_DispatchOnSupplied ==
    (Initialized /\ K >= 2)
    => /\ call.decoder.RecoveryCount = 0 => call.path = "NothingErased"
       /\ call.decoder.RecoveryCount = 1 => call.path = "DecodeM1"
       /\ call.decoder.RecoveryCount >= 2 => call.path = "Decode"

\* C15: after the bookkeeping succeeded (k >= 2), cm256_decode returns without
\* further work when no recovery block was supplied; otherwise it runs DecodeM1
\* when the parameter RecoveryCount (m) is 1 and Decode when m >= 2, also when a
\* single recovery block was supplied.
C15_Dispatch ==
    (Initialized /\ K >= 2)
    => /\ call.decoder.RecoveryCount = 0 => call.path = "NothingErased"
       /\ (call.decoder.RecoveryCount >= 1 /\ M = 1) => call.path = "DecodeM1"
       /\ (call.decoder.RecoveryCount >= 1 /\ M >= 2) => call.path = "Decode"

\* one recovery block, not the parity row, was supplied with m >= 2: the solver
\* ran on a 1 x 1 system and restored the erased original
C15_Witness ==
    /\ Initialized /\ K >= 2 /\ M >= 2 /\ encoded
    /\ call.decoder.RecoveryCount = 1
    /\ call.blocks[call.decoder.Recovery[0]].Index > K
    /\ call.path = "Decode"
    /\ mem[call.blocks[call.decoder.Recovery[0]].Block]
          = orig[call.decoder.ErasuresIndices[0]]

\* C16: no division by zero in decode. For k descriptors with pairwise distinct
\* indices in [0, k+m), every divisor used by Decode and GenerateLDUDecomposition
\* is non-zero: the denominators x_i + y_j of GetMatrixElement, D_kk, L_kk, U_kk and
\* the denominators of the row loop at every pivot step (so the generators g[j],
\* b[j] stay non-zero), and every diag_D[i] the recovery buffers are divided by.
C16_NoZeroDivisor ==
    (Solved /\ DistinctIndices(call.blocks))
    => /\ \A i \in 0..(SolvedN - 1), o \in 0..(call.decoder.OriginalCount - 1) :
             gf256_add(Solved_x(i), call.blocks[call.decoder.Original[o]].Index) # 0
       /\ \A d \in call.ldu.divisors : d[2] # 0
       /\ \A j \in 0..(SolvedN - 1) : call.ldu.g[j] # 0 /\ call.ldu.b[j] # 0
       /\ \A i \in 0..(SolvedN - 1) : call.ldu.matrix[Solved_diag_D + i] # 0

\* a system of the largest size with the parity row among the recovery rows
C16_Witness ==
    /\ Solved /\ DistinctIndices(call.blocks) /\ SolvedN = MaxN
    /\ \E i \in 0..(SolvedN - 1) : Solved_x(i) = K
    /\ \E d \in call.ldu.divisors : d[1] = "U_kk" /\ d[2] > 1
    /\ \E d \in call.ldu.divisors : d[1] = "x_n + y_n"
    /\ call.ldu.g[2] > 1 /\ call.ldu.b[2] > 1

====
